---- MODULE Spec2Model ----
(***************************************************************************)
(* Free-game mail notifier (src/src/server.ts).  The file holds an earlier  *)
(* draft of the server (lines 1-285) above its current text; the model     *)
(* follows the current text: the schemas and helpers of lines 348-473 and  *)
(* the routes of lines 477-574.                                            *)
(*                                                                         *)
(* Every route handler is an async function.  Node runs one handler        *)
(* segment at a time and may switch handlers at every await, so a request  *)
(* is a small process whose steps are the segments between its awaits.     *)
(* The two MongoDB collections, with the unique indexes their schemas      *)
(* declare, are the persistent state.  The catalog feed and the mail       *)
(* transport are the environment: each fetch draws a feed (or fails) and   *)
(* each transport call succeeds or fails.                                  *)
(***************************************************************************)
EXTENDS Integers, Sequences, FiniteSets, TLC

VARIABLES
    gameList,   \* collection GamesList: documents in createdAt order
    mailList,   \* collection MailList: documents in createdAt order
    inflight,   \* the requests being handled, each suspended at an await
    last,       \* the request answered (or abandoned) most recently
    nreq,       \* requests received so far
    listMails,  \* per title: transporter calls made by /send-to-mailList
    delivered,  \* per title: those of them the transport accepted
    removed     \* per title: documents deleted by /remove-latest-game

vars == <<gameList, mailList, inflight, last, nreq, listMails, delivered, removed>>

(***************************** bounds **************************************)
MaxConc == 2
MaxRequests == 2
MaxSeqRequests == 4

(***************************** inputs **************************************)
Titles == {"Alpha", "Beta"}

\* request bodies of /add-mail and /remove-mail
Bodies == {"a@x.io", " b@x.io ", "bad"}

\* the clock readings of `new Date()` in curGame, and the catalog timestamps
Clock == 2..3
NullDate == <<>>

Element(t, eff, exp) == [title |-> t, effectiveDate |-> eff, expiryDate |-> exp]

\* responses of the catalog endpoint: data.Catalog.searchStore.elements
Feeds ==
    { <<>>,
      <<Element("Alpha", 1, <<5>>)>>,
      <<Element("Beta", 1, <<5>>)>>,
      <<Element("Beta", 4, <<5>>), Element("Alpha", 1, <<5>>)>>,
      <<Element("Alpha", 1, NullDate), Element("Beta", 2, <<5>>)>>,
      <<Element("Alpha", 1, <<5>>), Element("Beta", 1, <<5>>)>> }

(***************************** values **************************************)
Null == <<>>
Some(v) == <<v>>

Kinds == {"checkgame", "add-mail", "send-to-mailList", "remove-latest-game",
          "remove-mail"}

Idle ==
    [id |-> 0, kind |-> "none", pc |-> "idle", email |-> "", game |-> Null,
     latest |-> Null, list |-> <<>>, resp |-> <<>>, err |-> "none",
     mutated |-> FALSE, fetched |-> FALSE, read |-> FALSE, saved |-> FALSE,
     found |-> FALSE, mail |-> Null, nmail |-> 0, mailOk |-> FALSE]

(***************************** helpers *************************************)
\* formatDate: the timestamp rendered as an en-IN calendar date
formatDate(d) == <<"en-IN", d>>

\* formatToHTML: the message body of a game
formatToHTML(g) == <<"<h1>Free Game from Epic Store</h1>", g.game, g.startDate, g.endDate>>

\* curGame, after the fetch: filter the elements, take the first, or null
curGame(elements, now) ==
    LET currentFreeGames ==
            SelectSeq(elements,
                      LAMBDA ele : ele.expiryDate # NullDate /\ now > ele.effectiveDate)
    IN  IF Len(currentFreeGames) = 0
        THEN Null
        ELSE LET curFreeGame == currentFreeGames[1]
             IN  Some([game |-> curFreeGame.title,
                       startDate |-> formatDate(curFreeGame.effectiveDate),
                       endDate |-> formatDate(curFreeGame.expiryDate[1])])

\* Array.prototype.join(', ')
RECURSIVE Join(_)
Join(a) ==
    IF Len(a) = 0 THEN ""
    ELSE IF Len(a) = 1 THEN a[1]
    ELSE a[1] \o ", " \o Join(Tail(a))

\* `to` is a string ([arr |-> FALSE, v |-> "x"]) or an array of strings
Str(s) == [arr |-> FALSE, v |-> s]
Arr(a) == [arr |-> TRUE, v |-> a]

\* the key as the first version of sendMail set it: always the visible field
RecipientField_AlwaysTo(to) == "to"

\* the computed key of mailOptions
RecipientField(to) == IF to.arr /\ Len(to.v) > 1 THEN "bcc" ELSE "to"

\* sendMail, up to the transporter call: the mailOptions it builds
MailOptions(to, html) ==
    LET recipients == IF to.arr THEN Join(to.v) ELSE to.v
    IN  [field |-> RecipientField(to), recipients |-> recipients, html |-> html]

\* emailVal: isString().trim().isLength({min:6}).isEmail(); the sanitised value
trim(b) == IF b = " b@x.io " THEN "b@x.io" ELSE b
isEmail(e) == e \in {"a@x.io", "b@x.io"}
emailVal(b) == Len(trim(b)) >= 6 /\ isEmail(trim(b))

\* gamesListSchema without `unique : true` on game
GameIndexAllows_NoIndex(doc) == TRUE

\* the unique index on `game` of gamesListSchema
GameIndexAllows(doc) == \A i \in 1..Len(gameList) : gameList[i].game # doc.game

\* mailListSchema without `unique : true` on email
MailIndexAllows_NoIndex(email) == TRUE

\* the unique index on `email` of mailListSchema
MailIndexAllows(email) == \A i \in 1..Len(mailList) : mailList[i].email # email

\* findOne({}).sort({createdAt : -1})
LatestSaved == IF Len(gameList) = 0 THEN Null ELSE Some(gameList[Len(gameList)])

\* latestSavedGame?.game
TitleOf(doc) == IF doc = Null THEN Null ELSE Some(doc[1].game)

\* the comparison of /send-to-mailList, line 521
SameGame(latestGame, latestSavedGame) == Some(latestGame.game) = TitleOf(latestSavedGame)

\* /send-to-mailList without its null check
NoCurrentGame_Unchecked(latestGame) == FALSE

\* the guard of /send-to-mailList, line 516
NoCurrentGame(latestGame) == latestGame = Null

\* whether the collection holds a document with this email
InStore(email) == \E i \in 1..Len(mailList) : mailList[i].email = email

\* /add-mail without its duplicate check
AlreadyListed_Unchecked(email) == FALSE

\* the guard of /add-mail, line 493: findOne({email}) found a document
AlreadyListed(email) == InStore(email)

\* findOneAndDelete({email}): the collection without the first match
RECURSIVE DeleteFirst(_, _)
DeleteFirst(docs, email) ==
    IF Len(docs) = 0 THEN <<>>
    ELSE IF Head(docs).email = email THEN Tail(docs)
    ELSE <<Head(docs)>> \o DeleteFirst(Tail(docs), email)

\* res.status(s).json(..): one more response on the request
Respond(r, s) == [r EXCEPT !.resp = Append(@, s), !.pc = "done"]

\* next(new AppError(msg, statusCode)) and the error handling middleware
Fail(r, why, statusCode) == Respond([r EXCEPT !.err = why], statusCode)

(***************************** state ***************************************)
\* the documents the database may hold when the server connects to it: what
\* earlier runs of the server stored, under the unique indexes of the schemas
Doc(t) == [game |-> t, startDate |-> formatDate(1), endDate |-> formatDate(5)]
StoredGames == {<<>>, <<Doc("Alpha")>>, <<Doc("Alpha"), Doc("Beta")>>}
StoredMails == {<<>>, <<[email |-> "a@x.io"]>>,
                <<[email |-> "a@x.io"], [email |-> "b@x.io"]>>}

Init ==
    /\ gameList \in StoredGames
    /\ mailList \in StoredMails
    /\ inflight = {}
    /\ last = Idle
    /\ nreq = 0
    /\ listMails = [t \in Titles |-> 0]
    /\ delivered = [t \in Titles |-> 0]
    /\ removed = [t \in Titles |-> 0]

\* the server connected to an empty database
InitFresh ==
    /\ gameList = <<>>
    /\ mailList = <<>>
    /\ inflight = {}
    /\ last = Idle
    /\ nreq = 0
    /\ listMails = [t \in Titles |-> 0]
    /\ delivered = [t \in Titles |-> 0]
    /\ removed = [t \in Titles |-> 0]

Ghosts == <<listMails, delivered, removed>>

\* the handler of request r runs up to its next await (r2.pc names it), or to
\* its end, where the request leaves the server
Step(r, r2) ==
    IF r2.pc = "done"
    THEN inflight' = inflight \ {r} /\ last' = [r2 EXCEPT !.id = 0]
    ELSE inflight' = (inflight \ {r}) \cup {r2} /\ UNCHANGED last

\* a request arrives; the validators of /add-mail and /remove-mail run first
Receive(kind, body, limit) ==
    /\ Cardinality(inflight) < MaxConc
    /\ nreq < limit
    /\ nreq' = nreq + 1
    /\ LET r == [Idle EXCEPT !.id = nreq + 1, !.kind = kind]
       IN  CASE kind \in {"add-mail", "remove-mail"} /\ ~emailVal(body) ->
                    Step(r, Fail(r, "validation", 400))
             [] kind \in {"add-mail", "remove-mail"} ->
                    Step(r, [r EXCEPT !.email = trim(body),
                                      !.pc = IF kind = "add-mail" THEN "findOne" ELSE "delete"])
             [] kind \in {"checkgame", "send-to-mailList"} ->
                    Step(r, [r EXCEPT !.pc = "curGame"])
             [] OTHER -> Step(r, [r EXCEPT !.pc = "delete"])
    /\ UNCHANGED <<gameList, mailList, Ghosts>>

\* GET /checkgame, lines 477-485
CheckGame(r) ==
    /\ r.kind = "checkgame" /\ r.pc = "curGame"
    /\ \/ \E feed \in Feeds, now \in Clock :
            Step(r, Respond([r EXCEPT !.game = curGame(feed, now), !.fetched = TRUE], 200))
       \/ Step(r, Fail(r, "fetch", 500))
    /\ UNCHANGED <<gameList, mailList, nreq, Ghosts>>

\* POST /add-mail, lines 492-496: findOne resolves, the duplicate check, the save is issued
AddMailFindOne(r) ==
    /\ r.kind = "add-mail" /\ r.pc = "findOne"
    /\ \/ LET q == [r EXCEPT !.found = InStore(r.email)]
          IN  IF AlreadyListed(r.email)
              THEN Step(r, Fail(q, "duplicate", 400))
              ELSE Step(r, [q EXCEPT !.pc = "save"])
       \/ Step(r, Fail(r, "store", 500))
    /\ UNCHANGED <<gameList, mailList, nreq, Ghosts>>

\* POST /add-mail, lines 497-499: newMail.save() resolves or throws, curGame is called
AddMailSave(r) ==
    /\ r.kind = "add-mail" /\ r.pc = "save"
    /\ \/ /\ MailIndexAllows(r.email)
          /\ mailList' = Append(mailList, [email |-> r.email])
          /\ Step(r, [r EXCEPT !.mutated = TRUE, !.saved = TRUE, !.pc = "curGame"])
       \/ /\ ~MailIndexAllows(r.email)
          /\ Step(r, Fail(r, "dupkey", 500))
          /\ UNCHANGED mailList
       \/ /\ Step(r, Fail(r, "store", 500))
          /\ UNCHANGED mailList
    /\ UNCHANGED <<gameList, nreq, Ghosts>>

\* POST /add-mail, lines 499-505: curGame resolves, the mail is built and handed over
AddMailCurGame(r) ==
    /\ r.kind = "add-mail" /\ r.pc = "curGame"
    /\ \/ \E feed \in Feeds, now \in Clock :
            LET game == curGame(feed, now)
                q == [r EXCEPT !.game = game, !.fetched = TRUE]
            IN  IF game # Null
                THEN Step(r, [q EXCEPT !.mail = Some(MailOptions(Str(r.email),
                                                                formatToHTML(game[1]))),
                                       !.nmail = @ + 1, !.pc = "sendMail"])
                ELSE Step(r, Respond(q, 201))
       \/ Step(r, Fail(r, "fetch", 500))
    /\ UNCHANGED <<gameList, mailList, nreq, Ghosts>>

\* transporter.sendMail: a message without recipients is refused; any other
\* may be accepted or fail
TransportMayAccept(mailOptions) == mailOptions.recipients # ""

\* POST /add-mail, lines 502-509: transporter.sendMail resolves or throws
AddMailSend(r) ==
    /\ r.kind = "add-mail" /\ r.pc = "sendMail"
    /\ \/ /\ TransportMayAccept(r.mail[1])
          /\ Step(r, Respond([r EXCEPT !.mailOk = TRUE], 201))
       \/ Step(r, Fail(r, "mail", 500))
    /\ UNCHANGED <<gameList, mailList, nreq, Ghosts>>

\* POST /remove-mail, lines 557-567
RemoveMail(r) ==
    /\ r.kind = "remove-mail" /\ r.pc = "delete"
    /\ \/ /\ mailList' = DeleteFirst(mailList, r.email)
          /\ Step(r, Respond([r EXCEPT !.found = InStore(r.email),
                                       !.mutated = (mailList' # mailList)], 200))
       \/ /\ Step(r, Fail(r, "store", 500))
          /\ UNCHANGED mailList
    /\ UNCHANGED <<gameList, nreq, Ghosts>>

\* POST /remove-latest-game, lines 546-554
RemoveLatestGame(r) ==
    /\ r.kind = "remove-latest-game" /\ r.pc = "delete"
    /\ \/ /\ Len(gameList) > 0
          /\ gameList' = SubSeq(gameList, 1, Len(gameList) - 1)
          /\ removed' = [removed EXCEPT ![gameList[Len(gameList)].game] = @ + 1]
          /\ Step(r, Respond([r EXCEPT !.mutated = TRUE], 200))
       \/ /\ Len(gameList) = 0
          /\ Step(r, Respond(r, 200))
          /\ UNCHANGED <<gameList, removed>>
       \/ /\ Step(r, Fail(r, "store", 500))
          /\ UNCHANGED <<gameList, removed>>
    /\ UNCHANGED <<mailList, nreq, listMails, delivered>>

\* POST /send-to-mailList, lines 515-519: curGame resolves; without a current
\* game the handler returns an AppError object and nothing is sent to the client
TriggerCurGame(r) ==
    /\ r.kind = "send-to-mailList" /\ r.pc = "curGame"
    /\ \/ \E feed \in Feeds, now \in Clock :
            LET latestGame == curGame(feed, now)
                q == [r EXCEPT !.game = latestGame, !.fetched = TRUE]
            IN  IF NoCurrentGame(latestGame)
                THEN Step(r, [q EXCEPT !.pc = "done"])
                ELSE Step(r, [q EXCEPT !.pc = "findLatest"])
       \/ Step(r, Fail(r, "fetch", 500))
    /\ UNCHANGED <<gameList, mailList, nreq, Ghosts>>

\* POST /send-to-mailList, lines 519-531: the latest saved game is read and compared
TriggerFindLatest(r) ==
    /\ r.kind = "send-to-mailList" /\ r.pc = "findLatest"
    /\ \/ LET latestSavedGame == LatestSaved
              q == [r EXCEPT !.latest = TitleOf(latestSavedGame), !.read = TRUE]
          IN  IF SameGame(r.game[1], latestSavedGame)
              THEN Step(r, Respond(q, 200))
              ELSE Step(r, [q EXCEPT !.pc = "save"])
       \/ Step(r, Fail(r, "store", 500))
    /\ UNCHANGED <<gameList, mailList, nreq, Ghosts>>

\* POST /send-to-mailList, lines 531-533: newGame.save() resolves or throws
TriggerSave(r) ==
    /\ r.kind = "send-to-mailList" /\ r.pc = "save"
    /\ \/ /\ GameIndexAllows(r.game[1])
          /\ gameList' = Append(gameList, r.game[1])
          /\ Step(r, [r EXCEPT !.mutated = TRUE, !.saved = TRUE, !.pc = "find"])
       \/ /\ ~GameIndexAllows(r.game[1])
          /\ Step(r, Fail(r, "dupkey", 500))
          /\ UNCHANGED gameList
       \/ /\ Step(r, Fail(r, "store", 500))
          /\ UNCHANGED gameList
    /\ UNCHANGED <<mailList, nreq, Ghosts>>

\* POST /send-to-mailList, lines 533-536: mailList.find() resolves, the mail is
\* built and handed to the transporter
TriggerFind(r) ==
    /\ r.kind = "send-to-mailList" /\ r.pc = "find"
    /\ \/ LET mailingList == [i \in 1..Len(mailList) |-> mailList[i].email]
          IN  /\ Step(r, [r EXCEPT !.list = mailingList,
                                   !.mail = Some(MailOptions(Arr(mailingList),
                                                             formatToHTML(r.game[1]))),
                                   !.nmail = @ + 1, !.pc = "sendMail"])
              /\ listMails' = [listMails EXCEPT ![r.game[1].game] = @ + 1]
              /\ UNCHANGED <<delivered, removed>>
       \/ /\ Step(r, Fail(r, "store", 500))
          /\ UNCHANGED Ghosts
    /\ UNCHANGED <<gameList, mailList, nreq>>

\* /send-to-mailList undoing its history entry when the transport fails
TriggerSend_Rollback(r) ==
    /\ r.kind = "send-to-mailList" /\ r.pc = "sendMail"
    /\ \/ /\ TransportMayAccept(r.mail[1])
          /\ Step(r, Respond([r EXCEPT !.mailOk = TRUE], 200))
          /\ delivered' = [delivered EXCEPT ![r.game[1].game] = @ + 1]
          /\ UNCHANGED gameList
       \/ /\ Step(r, Fail(r, "mail", 500))
          /\ gameList' = SelectSeq(gameList, LAMBDA d : d.game # r.game[1].game)
          /\ UNCHANGED delivered
    /\ UNCHANGED <<mailList, nreq, listMails, removed>>

\* POST /send-to-mailList, lines 536-542: transporter.sendMail resolves or throws
TriggerSend(r) ==
    /\ r.kind = "send-to-mailList" /\ r.pc = "sendMail"
    /\ \/ /\ TransportMayAccept(r.mail[1])
          /\ Step(r, Respond([r EXCEPT !.mailOk = TRUE], 200))
          /\ delivered' = [delivered EXCEPT ![r.game[1].game] = @ + 1]
       \/ /\ Step(r, Fail(r, "mail", 500))
          /\ UNCHANGED delivered
    /\ UNCHANGED <<gameList, mailList, nreq, listMails, removed>>

\* requests arrive at any time and their awaits interleave
Next ==
    \/ \E k \in Kinds, b \in Bodies : Receive(k, b, MaxRequests)
    \/ \E r \in inflight : CheckGame(r)
    \/ \E r \in inflight : AddMailFindOne(r)
    \/ \E r \in inflight : AddMailSave(r)
    \/ \E r \in inflight : AddMailCurGame(r)
    \/ \E r \in inflight : AddMailSend(r)
    \/ \E r \in inflight : RemoveMail(r)
    \/ \E r \in inflight : RemoveLatestGame(r)
    \/ \E r \in inflight : TriggerCurGame(r)
    \/ \E r \in inflight : TriggerFindLatest(r)
    \/ \E r \in inflight : TriggerSave(r)
    \/ \E r \in inflight : TriggerFind(r)
    \/ \E r \in inflight : TriggerSend(r)

Spec == Init /\ [][Next]_vars

\* requests arrive one at a time, each only after the one before it has ended,
\* at a server that started on an empty database
NextSeq ==
    \/ \E k \in Kinds, b \in Bodies : inflight = {} /\ Receive(k, b, MaxSeqRequests)
    \/ \E r \in inflight : CheckGame(r)
    \/ \E r \in inflight : AddMailFindOne(r)
    \/ \E r \in inflight : AddMailSave(r)
    \/ \E r \in inflight : AddMailCurGame(r)
    \/ \E r \in inflight : AddMailSend(r)
    \/ \E r \in inflight : RemoveMail(r)
    \/ \E r \in inflight : RemoveLatestGame(r)
    \/ \E r \in inflight : TriggerCurGame(r)
    \/ \E r \in inflight : TriggerFindLatest(r)
    \/ \E r \in inflight : TriggerSave(r)
    \/ \E r \in inflight : TriggerFind(r)
    \/ \E r \in inflight : TriggerSend(r)

SpecSeq == InitFresh /\ [][NextSeq]_vars

(***************************** properties **********************************)
Trigger(r) == r.kind = "send-to-mailList"
Title(r) == r.game[1].game
Requests == inflight \cup {last}
StoredTitles == {gameList[i].game : i \in 1..Len(gameList)}

\* the trigger got past the title comparison: it decided to notify
DecidedNotify(r) == Trigger(r) /\ r.read /\ r.game # Null /\ r.latest # Some(Title(r))

\* transporter calls of /send-to-mailList for title t that are still pending
Pending(t) ==
    Cardinality({r \in inflight : Trigger(r) /\ r.pc = "sendMail" /\ Title(r) = t})

\* a transporter call of /send-to-mailList for title t has failed
SendFailed(t) == listMails[t] - delivered[t] - Pending(t) > 0

\* C1: every trigger run, one at a time, in which the feed yields a game G whose
\* title differs from the latest history entry's (or the history is empty) ends
\* with an entry for G appended as the latest one and the mailer invoked for G,
\* whatever the earlier history holds.
C1_NotifyWheneverLatestDiffers ==
    (inflight = {} /\ DecidedNotify(last) /\ last.err # "store")
        => /\ last.saved
           /\ TitleOf(LatestSaved) = Some(Title(last))
           /\ last.nmail = 1

\* C2: two trigger runs in succession with the same fetched game, the first of
\* which decided to notify, make exactly one history entry and one mailer call
\* between them; the second finds the fetched title to be the latest saved one
\* and neither appends nor sends.
C2_SecondRunIsNoAction ==
    [][(/\ inflight' = {} /\ inflight # {} /\ nreq > 1
        /\ DecidedNotify(last) /\ Trigger(last') /\ last'.game = last.game
        /\ last.err # "store" /\ last'.err # "store")
          => /\ last.saved /\ last.nmail = 1
             /\ last'.latest = Some(Title(last'))
             /\ ~last'.saved /\ last'.nmail = 0]_vars

\* C3: a mailer call with more than one recipient names them all in bcc and has
\* no `to`; a call with one recipient (a string, or an array of one) names it
\* in `to`; a request calls the mailer at most once.
C3_BlindWhenSeveral ==
    \A r \in Requests :
        r.mail # Null =>
            /\ r.nmail = 1
            /\ Trigger(r) /\ Len(r.list) > 1 =>
                    r.mail[1].field = "bcc" /\ r.mail[1].recipients = Join(r.list)
            /\ Trigger(r) /\ Len(r.list) = 1 =>
                    r.mail[1].field = "to" /\ r.mail[1].recipients = r.list[1]
            /\ r.kind = "add-mail" =>
                    r.mail[1].field = "to" /\ r.mail[1].recipients = r.email

\* a notification went out to a list of two, once, in bcc
C3_Witness ==
    /\ Trigger(last) /\ last.mailOk /\ Len(last.list) = 2 /\ last.nmail = 1
    /\ last.mail[1].field = "bcc"
    /\ last.mail[1].recipients = "a@x.io, b@x.io"

\* C4: a request that ended with a feed fetch failure has changed neither the
\* subscriber store nor the history store.
C4_FetchErrorChangesNothing == last.err = "fetch" => ~last.mutated

\* C5: every request whose handler has ended has been sent exactly one
\* response: a 2xx on success, a 4xx/5xx with its error.
C5_ExactlyOneResponse ==
    last.kind # "none" =>
        /\ Len(last.resp) = 1
        /\ last.resp[1] \in (IF last.err = "none" THEN {200, 201} ELSE {400, 500})

C7_AtMostOnceAfterSendError ==
    /\ \A r \in Requests : Trigger(r) /\ r.nmail > 0 => r.saved
    /\ \A r \in Requests :
          Trigger(r) /\ r.read /\ r.latest = Some(Title(r)) =>
              r.pc = "done" /\ r.resp = <<200>> /\ ~r.saved /\ r.nmail = 0
    /\ Trigger(last) /\ last.err = "mail" => last.resp = <<500>> /\ last.saved
    /\ \A t \in Titles :
          SendFailed(t) /\ removed[t] = 0 =>
              t \in StoredTitles /\ listMails[t] = 1 /\ delivered[t] = 0

\* after a failed send for the game a later trigger fetched it again and
\* answered without appending or sending
C7_Witness ==
    /\ Trigger(last) /\ last.read /\ last.err = "none" /\ last.game # Null
    /\ last.latest = Some(Title(last)) /\ last.nmail = 0 /\ ~last.saved
    /\ SendFailed(Title(last)) /\ removed[Title(last)] = 0

\* C8: an /add-mail whose email the store holds when it is looked up is answered
\* 400 (duplicate) and has neither changed the store, fetched the feed nor mailed.
C8_DuplicateRejected ==
    /\ \A r \in inflight : r.kind = "add-mail" => ~r.found
    /\ last.kind = "add-mail" /\ last.found =>
          /\ last.resp = <<400>> /\ last.err = "duplicate"
          /\ ~last.mutated /\ ~last.fetched /\ last.nmail = 0

\* a duplicate /add-mail was rejected
C8_Witness == last.kind = "add-mail" /\ last.found /\ last.resp = <<400>>

\* C9: a trigger whose fetch yields no current game ends there: it does not read
\* the history, appends nothing and does not call the mailer.
C9_NoGameNoAction ==
    \A r \in Requests :
        Trigger(r) /\ r.fetched /\ r.game = Null =>
            r.pc = "done" /\ ~r.read /\ ~r.saved /\ ~r.mutated /\ r.nmail = 0

\* a trigger found nothing free, with history and subscribers stored
C9_Witness ==
    /\ Trigger(last) /\ last.fetched /\ last.game = Null
    /\ Len(gameList) > 0 /\ Len(mailList) > 0

\* C10: the subscriber store never holds two documents with one email, however
\* /add-mail and /remove-mail interleave; a /remove-mail of an email the store
\* does not hold changes nothing and is answered 200.
C10_UniqueSubscribers ==
    /\ \A i, j \in 1..Len(mailList) : mailList[i].email = mailList[j].email => i = j
    /\ last.kind = "remove-mail" /\ last.err = "none" /\ ~last.found =>
          last.resp = <<200>> /\ ~last.mutated

\* of two concurrent /add-mail for one email, both past the existence check,
\* the second insert was refused and the store holds the email once
C10_Witness ==
    /\ last.kind = "add-mail" /\ ~last.found /\ last.err = "dupkey"
    /\ InStore(last.email)
====
